---- MODULE Spec2Model ----
(***************************************************************************)
(* gh-release-watcher (src/main.js): a poll loop that reads a list of      *)
(* repositories, fetches each repository's releases, compares the selected *)
(* release's normalized version with the one recorded in a lowdb JSON      *)
(* store and posts a notification to an ntfy gateway for a newer one.      *)
(*                                                                         *)
(* One action of the model is one turn of the Node.js event loop: the      *)
(* synchronous code that runs between two awaits, up to the next await.    *)
(* Strings that the program parses (tags, versions) are sequences of       *)
(* one-character strings.                                                  *)
(***************************************************************************)
EXTENDS Integers, Sequences, FiniteSets, TLC

\* ------------------------------------------------------------------------
\* Bounds of the model
\* ------------------------------------------------------------------------

\* longest repository list file (in lines) the sweeps read
MaxLines == 3

\* most error notifications of fetchReleases that may be in flight at once
MaxFloating == 1

\* the sweeps of an undisturbed run are counted up to this number
MaxSweeps == 3

\* longest release body, in pieces of text
MaxPieces == 3

\* ------------------------------------------------------------------------
\* Characters, tags and versions
\* ------------------------------------------------------------------------

Digits == {"0", "1", "2", "3", "4", "5", "6", "7", "8", "9"}

IsDigit(c) == c \in Digits

DigitVal(c) ==
    CASE c = "0" -> 0 [] c = "1" -> 1 [] c = "2" -> 2 [] c = "3" -> 3
      [] c = "4" -> 4 [] c = "5" -> 5 [] c = "6" -> 6 [] c = "7" -> 7
      [] c = "8" -> 8 [] c = "9" -> 9

\* index of the last character of the maximal digit run that starts at i
RECURSIVE RunEnd(_, _)
RunEnd(s, i) ==
    IF i + 1 <= Len(s) /\ IsDigit(s[i + 1]) THEN RunEnd(s, i + 1) ELSE i

\* (?:\.\d+)* taken greedily after a digit run that ends at e
RECURSIVE DottedEnd(_, _)
DottedEnd(s, e) ==
    IF e + 2 <= Len(s) /\ s[e + 1] = "." /\ IsDigit(s[e + 2])
    THEN DottedEnd(s, RunEnd(s, e + 2))
    ELSE e

\* does /\d+(?:\.\d+)+/ match at position i
MatchesAt(s, i) ==
    /\ IsDigit(s[i])
    /\ DottedEnd(s, RunEnd(s, i)) > RunEnd(s, i)

\* a faulty variant: any digit run counts as a version, dotted or not (/\d+(?:\.\d+)*/)
sanitizeVersion_anyDigits(version) ==
    LET starts == {i \in 1..Len(version) : IsDigit(version[i])}
    IN  IF starts = {} THEN <<>>
        ELSE LET i == CHOOSE k \in starts : \A j \in starts : k <= j
             IN  <<"v">> \o SubSeq(version, i, DottedEnd(version, RunEnd(version, i)))

\* version.match(/(\d+(?:\.\d+)+)/): the leftmost match, prefixed with "v";
\* '' when there is none
sanitizeVersion(version) ==
    LET starts == {i \in 1..Len(version) : MatchesAt(version, i)}
    IN  IF starts = {} THEN <<>>
        ELSE LET i == CHOOSE k \in starts : \A j \in starts : k <= j
             IN  <<"v">> \o SubSeq(version, i, DottedEnd(version, RunEnd(version, i)))

\* the characters the semver grammar of compare-versions allows before the
\* major number: /^[v^~<>=]*?/
PrefixChars == {"v", "^", "~", "<", ">", "="}

RECURSIVE StripPrefix(_)
StripPrefix(s) ==
    IF s # <<>> /\ Head(s) \in PrefixChars THEN StripPrefix(Tail(s)) ELSE s

\* s.split('.')
RECURSIVE SplitDots(_)
SplitDots(s) ==
    LET dots == {i \in 1..Len(s) : s[i] = "."}
    IN  IF dots = {} THEN <<s>>
        ELSE LET i == CHOOSE k \in dots : \A j \in dots : k <= j
             IN  <<SubSeq(s, 1, i - 1)>> \o SplitDots(SubSeq(s, i + 1, Len(s)))

IsNumber(seg) == seg # <<>> /\ \A i \in 1..Len(seg) : IsDigit(seg[i])

\* validate of compare-versions on the strings this program hands it: the
\* stored version and the result of sanitizeVersion, both made of "v",
\* digits and dots only. On those the semver grammar accepts a prefix
\* followed by one to four dot-separated numbers and nothing else.
validate(version) ==
    LET segs == SplitDots(StripPrefix(version))
    IN  /\ Len(segs) <= 4
        /\ \A i \in 1..Len(segs) : IsNumber(segs[i])

\* parseInt(seg, 10)
RECURSIVE parseInt(_)
parseInt(seg) ==
    IF seg = <<>> THEN 0
    ELSE 10 * parseInt(SubSeq(seg, 1, Len(seg) - 1)) + DigitVal(seg[Len(seg)])

\* a faulty variant: the segments compared as strings, character by character
RECURSIVE compareStrings_lexical(_, _)
compareStrings_lexical(a, b) ==
    IF a = <<>> /\ b = <<>> THEN 0
    ELSE IF a = <<>> THEN -1
    ELSE IF b = <<>> THEN 1
    ELSE IF DigitVal(Head(a)) > DigitVal(Head(b)) THEN 1
    ELSE IF DigitVal(Head(a)) < DigitVal(Head(b)) THEN -1
    ELSE compareStrings_lexical(Tail(a), Tail(b))

\* compareStrings of compare-versions on two numeric segments
compareStrings(a, b) ==
    IF parseInt(a) > parseInt(b) THEN 1
    ELSE IF parseInt(a) < parseInt(b) THEN -1
    ELSE 0

\* a faulty variant: a missing segment counts as less than any segment
RECURSIVE compareSegments_noPad(_, _, _)
compareSegments_noPad(a, b, i) ==
    IF i > Len(a) /\ i > Len(b) THEN 0
    ELSE IF i > Len(a) THEN -1
    ELSE IF i > Len(b) THEN 1
    ELSE LET r == compareStrings(a[i], b[i])
         IN  IF r # 0 THEN r ELSE compareSegments_noPad(a, b, i + 1)

\* compareSegments of compare-versions: the first differing segment decides;
\* a missing segment counts as '0'
RECURSIVE compareSegments(_, _, _)
compareSegments(a, b, i) ==
    IF i > 4 THEN 0
    ELSE LET x == IF i <= Len(a) THEN a[i] ELSE <<"0">>
             y == IF i <= Len(b) THEN b[i] ELSE <<"0">>
             r == compareStrings(x, y)
         IN  IF r # 0 THEN r ELSE compareSegments(a, b, i + 1)

\* a faulty variant: the arguments taken in the other order
compareVersions_swapped(v1, v2) ==
    compareSegments(SplitDots(StripPrefix(v2)), SplitDots(StripPrefix(v1)), 1)

\* compareVersions(v1, v2) of compare-versions for two valid versions
\* without pre-release part: -1 when v2 is the greater, 1 when v1 is, else 0
compareVersions(v1, v2) ==
    compareSegments(SplitDots(StripPrefix(v1)), SplitDots(StripPrefix(v2)), 1)

\* ------------------------------------------------------------------------
\* The repository list file
\* ------------------------------------------------------------------------

\* A line of REPO_FILE is the sequence of its colon-separated fields.
Widget     == <<"acme/widget">>
WidgetBeta == <<"Acme/Widget ", "BETA">>
Gadget     == <<"acme/gadget">>
Comment    == <<"# acme/gadget", "beta">>
Blank      == <<"">>
NoRepo     == <<"", "beta">>

\* the contents REPO_FILE may have when a sweep reads it
RepoFiles ==
    {f \in { <<>>,
             <<Widget, Gadget>>,
             <<Widget, Blank, WidgetBeta>>,
             <<Comment, Gadget, NoRepo>>,
             <<Widget, WidgetBeta, Widget, WidgetBeta>> } : Len(f) <= MaxLines}

\* the value of a missing repo (null) in parseLine's result
NULL == "<null>"

\* part.trim().toLowerCase() on the fields above
trimLower(part) ==
    CASE part = "Acme/Widget " -> "acme/widget"
      [] part = "BETA" -> "beta"
      [] OTHER -> part

\* line.startsWith('#')
startsWithHash(l) == l[1] \in {"# acme/gadget"}

RECURSIVE SelectLines(_)
SelectLines(f) ==
    IF f = <<>> THEN <<>>
    ELSE (IF Head(f) = Blank THEN <<>> ELSE <<Head(f)>>) \o SelectLines(Tail(f))

\* loadRepoLines: the lines of the file, trimmed, without the empty ones
loadRepoLines(f) == SelectLines(f)

\* a faulty variant: the beta field is ignored
parseLine_noBeta(l) ==
    IF startsWithHash(l) THEN [repo |-> NULL, beta |-> FALSE]
    ELSE [repo |-> trimLower(l[1]), beta |-> FALSE]

\* parseLine
parseLine(l) ==
    IF startsWithHash(l) THEN [repo |-> NULL, beta |-> FALSE]
    ELSE [repo |-> trimLower(l[1]),
          beta |-> (IF Len(l) >= 2 THEN trimLower(l[2]) ELSE "") = "beta"]

\* !repo
NoRepoIn(l) == parseLine(l).repo \in {NULL, ""}

\* the first line at or after i that processRepoLine does not skip,
\* Len(lines) + 1 when there is none
RECURSIVE NextReal(_, _)
NextReal(lines, i) ==
    IF i > Len(lines) THEN Len(lines) + 1
    ELSE IF NoRepoIn(lines[i]) THEN NextReal(lines, i + 1)
    ELSE i

\* ------------------------------------------------------------------------
\* Repositories and their releases upstream
\* ------------------------------------------------------------------------

Repos == {"acme/widget", "acme/gadget"}

Tag190     == <<"v", "1", ".", "9", ".", "0">>
Tag1100rc  == <<"v", "1", ".", "1", "0", ".", "0", "-", "r", "c", ".", "1">>
Tag110     == <<"1", ".", "1", "0">>
TagNightly == <<"n", "i", "g", "h", "t", "l", "y", "-", "7">>
Tag12345   == <<"1", ".", "2", ".", "3", ".", "4", ".", "5">>

Release(tag, draft, prerelease) ==
    [tag_name |-> tag, draft |-> draft, prerelease |-> prerelease]

\* the release lists the hosting API may return for a repository
ReleaseLists ==
    { <<>>,
      <<Release(Tag190, FALSE, FALSE)>>,
      <<Release(Tag110, TRUE, FALSE), Release(Tag1100rc, FALSE, TRUE),
        Release(Tag190, FALSE, FALSE)>>,
      <<Release(Tag110, TRUE, FALSE), Release(Tag1100rc, FALSE, TRUE)>>,
      <<Release(Tag110, FALSE, FALSE)>>,
      <<Release(TagNightly, FALSE, FALSE)>>,
      <<Release(Tag12345, FALSE, FALSE)>>,
      <<Release(Tag190, TRUE, FALSE)>> }

\* the release lists of the repositories, together
Upstreams ==
    {u \in [Repos -> ReleaseLists] :
        u["acme/gadget"] \in { <<Release(Tag190, FALSE, FALSE)>>,
                               <<Release(Tag110, FALSE, FALSE)>> }}

\* Array.prototype.find with the predicate of lines 140-145, as an index
\* (0 for undefined)
RECURSIVE findRelease(_, _, _)
findRelease(releases, beta, i) ==
    IF i > Len(releases) THEN 0
    ELSE IF releases[i].draft THEN findRelease(releases, beta, i + 1)
    ELSE IF ~beta /\ releases[i].prerelease THEN findRelease(releases, beta, i + 1)
    ELSE i

\* a faulty variant: the fallback of line 147 is missing
latestRelease_noFallback(releases, beta) == findRelease(releases, beta, 1)

\* the release processRepoLine selects (lines 140-147), as an index
\* (0 when none): find, then the fallback find that lets prereleases in
latestRelease(releases, beta) ==
    LET i == findRelease(releases, beta, 1)
    IN  IF i # 0 THEN i ELSE findRelease(releases, TRUE, 1)

\* ------------------------------------------------------------------------
\* Texts and the composition of a notification
\* ------------------------------------------------------------------------

\* A text is a sequence of pieces; a piece has a kind, which says what the
\* replacements of githubMarkdown and emojify do to it, and a length in
\* bytes (UTF-8).
Piece(kind, bytes) == [kind |-> kind, bytes |-> bytes]

\* text that no replacement touches
Plain(n) == Piece("plain", n)

\* ":tada:" and its glyph
Shortcode == Piece("shortcode", 6)
Glyph     == Piece("glyph", 4)

\* "@bob" after white space or at the start, and
\* "[@bob](https://github.com/bob)"
Mention     == Piece("mention", 4)
MentionLink == Piece("mentionLink", 30)

\* "https://github.com/acme/widget/issues/42" and "[#42](" the URL ")"
IssueUrl  == Piece("issueUrl", 40)
IssueLink == Piece("issueLink", 47)

\* "https://github.com/acme/widget/compare/v1.9.0...v1.10.0" and
\* "[v1.9.0...v1.10.0](" the URL ")"
CompareUrl  == Piece("compareUrl", 55)
CompareLink == Piece("compareLink", 75)

\* Buffer.byteLength(text, 'utf8')
RECURSIVE byteLength(_)
byteLength(text) ==
    IF text = <<>> THEN 0 ELSE Head(text).bytes + byteLength(Tail(text))

\* text.replace(pattern, replacement), piece by piece
Replace(text, from, to) ==
    [i \in 1..Len(text) |-> IF text[i] = from THEN to ELSE text[i]]

\* emojify of node-emoji: the shortcodes become their glyphs
emojify(text) == Replace(text, Shortcode, Glyph)

\* githubMarkdown: the links to issues and pull requests, the mentions and
\* the compare links are rewritten, then the shortcodes
githubMarkdown(text) ==
    emojify(Replace(Replace(Replace(text, IssueUrl, IssueLink),
                            Mention, MentionLink),
                    CompareUrl, CompareLink))

\* trunkateReleaseBody: the body when it fits into maxBytes, else
\* "Full release notes: [" url "](" url ")"
trunkateReleaseBody(body, url, maxBytes) ==
    IF byteLength(body) <= maxBytes THEN body
    ELSE <<Plain(21)>> \o url \o <<Plain(2)>> \o url \o <<Plain(1)>>

\* MAX_MESSAGE_BYTES
MAX_MESSAGE_BYTES == 4000

\* lines 176-183 for the repo r and the version v: "**" name "**", "Repo: ["
\* r "](" url ")", "Version: " v, "Published: " and the local date and time
\* (21 characters here, as in "11/4/2026, 3:37:00 PM"), joined by line
\* feeds and followed by two of them
Headers(name, r, url, v) ==
    emojify(<<Plain(2)>> \o name \o <<Plain(3), Plain(7 + Len(r) + 2)>> \o url
            \o <<Plain(2), Plain(9 + Len(v) + 1), Plain(11 + 21 + 2)>>)

\* the texts of length n over the pieces in alphabet
RECURSIVE TextsOf(_, _)
TextsOf(alphabet, n) ==
    IF n = 0 THEN {<<>>}
    ELSE LET shorter == TextsOf(alphabet, n - 1)
         IN  shorter \cup {Append(t, p) : t \in {x \in shorter : Len(x) = n - 1},
                                          p \in alphabet}

\* the name, html_url and body a release may have
ReleaseNames == {<<Plain(12)>>, <<Plain(12), Shortcode>>}

ReleaseUrls == {<<Plain(48)>>, <<Plain(60)>>}

ReleaseBodies ==
    TextsOf({Plain(1920), Shortcode, Mention, IssueUrl, CompareUrl}, MaxPieces)

\* the values of maxBytes trunkateReleaseBody is called with directly
Budgets == {100, 1000, MAX_MESSAGE_BYTES}

NoText == <<>>

\* ------------------------------------------------------------------------
\* State
\* ------------------------------------------------------------------------

VARIABLES
    pc,             \* where checkReleases stands: "main" (module not yet run),
                    \* "fetch" (line 138, the GET of line 68 in flight),
                    \* "write161", "write173", "write193" (updateVersion's
                    \* db.write() in flight), "post189" (the POST of the
                    \* new-release notification in flight), "sleeping"
    timer,          \* pending setTimeout(checkReleases) callbacks
    exit,           \* "none" while the process runs, else the promise whose
                    \* unhandled rejection ended it
    repoLines,      \* checkReleases: the list loaded by this sweep
    line,           \* index in repoLines of the entry being processed
    repo,           \* processRepoLine: repo of the entry being processed
    beta,           \* processRepoLine: beta of the entry being processed
    currentVersion, \* processRepoLine: normalized version of latestRelease
    dbData,         \* db.data.releases: repo -> version
    dbFile,         \* DB_FILE on disk
    initPc,         \* where initDb stands: "idle", "read", "write", "done"
    writeQ,         \* db.write() calls not yet on disk, oldest first
    floating,       \* POSTs of line 73 in flight, which nothing awaits
    posts,          \* requests this sweep has sent to the gateway
    upstream,       \* the releases each repository has on the hosting API
    attempts,       \* indices of the lines this sweep has handed to
                    \* processRepoLine
    failed,         \* new-release notifications whose delivery failed in
                    \* this sweep
    owed,           \* those of the sweep before, when nothing has changed
                    \* since
    steady,         \* the number of sweeps started (counted up to MaxSweeps)
                    \* while no request or file operation has failed and
                    \* neither the releases upstream nor the list have
                    \* changed since the process started; -1 once one has
    stage,          \* the notification of lines 175-189: "idle", "release"
                    \* (latestRelease selected), "message" (line 187 done),
                    \* "sent" (axios.post of line 82 called)
    release, \* processRepoLine: name, html_url and body of latestRelease
    headers,        \* processRepoLine: headers (line 176)
    maxBodyBytes,   \* processRepoLine: maxBodyBytes (line 185)
    message,        \* processRepoLine: message (line 187)
    payload         \* sendNtfy: the body handed to axios.post (line 82)

\* the variables of the composition of a notification
formatVars == <<stage, release, headers, maxBodyBytes, message, payload>>

vars == <<pc, timer, exit, repoLines, line, repo, beta, currentVersion,
          dbData, dbFile, initPc, writeQ, floating, posts, upstream,
          attempts, failed, owed, steady, formatVars>>

sweepVars == <<pc, timer, repoLines, line, repo, beta, currentVersion,
               attempts>>

\* the variables of the poll loop and the store
loopVars == <<pc, timer, exit, repoLines, line, repo, beta, currentVersion,
              dbData, dbFile, initPc, writeQ, floating, posts, upstream,
              attempts, failed, owed, steady>>

\* no release selected
NoRelease == [name |-> NoText, html_url |-> NoText, body |-> NoText]

NoReleases == [r \in {} |-> <<>>]

\* db.data.releases[repo] = version
SetVersion(releases, r, version) ==
    [x \in (DOMAIN releases) \cup {r} |-> IF x = r THEN version ELSE releases[x]]

\* the contents DB_FILE may have when the process starts
InitialFiles ==
    { [exists |-> FALSE, releases |-> NoReleases],
      [exists |-> TRUE, releases |-> NoReleases],
      [exists |-> TRUE, releases |-> SetVersion(NoReleases, "acme/widget", sanitizeVersion(Tag190))] }

Init ==
    /\ pc = "main"
    /\ timer = 0
    /\ exit = "none"
    /\ repoLines = <<>>
    /\ line = 0
    /\ repo = NULL
    /\ beta = FALSE
    /\ currentVersion = <<>>
    /\ dbData = NoReleases
    /\ dbFile \in InitialFiles
    /\ initPc = "idle"
    /\ writeQ = <<>>
    /\ floating = 0
    /\ posts = <<>>
    /\ upstream \in Upstreams
    /\ attempts = <<>>
    /\ failed = {}
    /\ owed = {}
    /\ steady = 0
    /\ stage = "idle"
    /\ release = NoRelease
    /\ headers = NoText
    /\ maxBodyBytes = 0
    /\ message = NoText
    /\ payload = NoText

\* ------------------------------------------------------------------------
\* checkReleases and processRepoLine
\* ------------------------------------------------------------------------

Range(a, b) == [k \in 1..(b - a + 1) |-> a + k - 1]

\* a faulty variant: the next sweep is scheduled when the loop starts an
\* entry, not after the last one
Continue_timerEarly(lines, i, tried) ==
    LET j == NextReal(lines, i)
    IN  /\ repoLines' = lines
        /\ currentVersion' = <<>>
        /\ timer' = 1
        /\ IF j <= Len(lines)
           THEN /\ pc' = "fetch"
                /\ line' = j
                /\ repo' = parseLine(lines[j]).repo
                /\ beta' = parseLine(lines[j]).beta
                /\ attempts' = tried \o Range(i, j)
           ELSE /\ pc' = "sleeping"
                /\ line' = j
                /\ repo' = NULL
                /\ beta' = FALSE
                /\ attempts' = tried \o Range(i, Len(lines))

\* The loop of lines 207-209 from entry i on, up to the next await: the
\* entries without a repo return at line 134; the first other entry issues
\* its GET (line 68); after the last entry the next sweep is scheduled
\* (line 214).
Continue(lines, i, tried) ==
    LET j == NextReal(lines, i)
    IN  /\ repoLines' = lines
        /\ currentVersion' = <<>>
        /\ IF j <= Len(lines)
           THEN /\ pc' = "fetch"
                /\ line' = j
                /\ repo' = parseLine(lines[j]).repo
                /\ beta' = parseLine(lines[j]).beta
                /\ timer' = 0
                /\ attempts' = tried \o Range(i, j)
           ELSE /\ pc' = "sleeping"
                /\ line' = j
                /\ repo' = NULL
                /\ beta' = FALSE
                /\ timer' = 1
                /\ attempts' = tried \o Range(i, Len(lines))

\* checkReleases from its start to its first await: the list is read
\* (synchronously); when that throws, the catch of line 210 logs and the
\* next sweep is scheduled
checkReleases(readable, f) ==
    /\ IF readable
       THEN Continue(loadRepoLines(f), 1, <<>>)
       ELSE Continue(<<>>, 1, <<>>)
    /\ posts' = <<>>
    /\ failed' = {}
    /\ owed' = IF readable /\ loadRepoLines(f) = repoLines THEN failed ELSE {}
    /\ steady' = IF steady = -1 \/ ~readable THEN -1
                 ELSE IF steady = 0 THEN 1
                 ELSE IF loadRepoLines(f) # repoLines THEN -1
                 ELSE IF steady < MaxSweeps THEN steady + 1
                 ELSE steady

\* lines 217-219: initDb() starts its read, checkReleases() starts the
\* first sweep; neither is awaited
Main(readable, f) ==
    /\ pc = "main"
    /\ exit = "none"
    /\ initPc' = "read"
    /\ checkReleases(readable, f)
    /\ UNCHANGED <<exit, dbData, dbFile, writeQ, floating, upstream>>
    /\ UNCHANGED formatVars

\* the timer of line 214 fires. The interval between two sweeps
\* (CHECK_INTERVAL) is taken to be longer than initDb takes, so that only
\* the first sweep runs while initDb is still under way.
TimerFires(readable, f) ==
    /\ pc = "sleeping"
    /\ timer = 1
    /\ exit = "none"
    /\ initPc = "done"
    /\ checkReleases(readable, f)
    /\ UNCHANGED <<exit, dbData, dbFile, initPc, writeQ, floating, upstream>>
    /\ UNCHANGED formatVars

ErrorPost(r) == [tag |-> "exclamation", repo |-> r, version |-> <<>>]
ReleasePost(r, version) == [tag |-> "loudspeaker", repo |-> r, version |-> version]

\* a faulty variant: db.write() is called without the entry having been set
updateVersion_unset(r, version, at) ==
    /\ dbData' = dbData
    /\ writeQ' = Append(writeQ, [by |-> "updateVersion", data |-> dbData'])
    /\ pc' = at
    /\ currentVersion' = version
    /\ UNCHANGED <<timer, repoLines, line, repo, beta, attempts>>

\* updateVersion up to its await: the entry is set and db.write() is called
updateVersion(r, version, at) ==
    /\ dbData' = SetVersion(dbData, r, version)
    /\ writeQ' = Append(writeQ, [by |-> "updateVersion", data |-> dbData'])
    /\ pc' = at
    /\ currentVersion' = version
    /\ UNCHANGED <<timer, repoLines, line, repo, beta, attempts>>

\* the hosting API answers the GET of line 68 with the releases and
\* processRepoLine resumes at line 138
Fetched ==
    /\ pc = "fetch"
    /\ exit = "none"
    /\ LET releases == upstream[repo]
           found == latestRelease(releases, beta)
           version == sanitizeVersion(releases[found].tag_name)
           known == repo \in DOMAIN dbData /\ dbData[repo] # <<>>
           lastVersion == dbData[repo]
       IN  IF found = 0
           THEN \* line 149
                /\ Continue(repoLines, line + 1, attempts)
                /\ UNCHANGED <<dbData, writeQ>>
           ELSE IF ~known
           THEN \* lines 158-164
                updateVersion(repo, version, "write161")
           ELSE IF ~validate(lastVersion) \/ ~validate(version)
           THEN \* line 166
                /\ Continue(repoLines, line + 1, attempts)
                /\ UNCHANGED <<dbData, writeQ>>
           ELSE IF compareVersions(lastVersion, version) = -1
           THEN \* lines 170-173
                updateVersion(repo, version, "write173")
           ELSE IF compareVersions(lastVersion, version) = 1
           THEN \* lines 190-193
                updateVersion(repo, version, "write193")
           ELSE \* line 195
                /\ Continue(repoLines, line + 1, attempts)
                /\ UNCHANGED <<dbData, writeQ>>
    /\ UNCHANGED <<exit, dbFile, initPc, floating, posts, upstream, failed, owed,
                   steady>>
    /\ UNCHANGED formatVars

\* a faulty variant: a 404 is rethrown like any other failure
NotFound_rethrown ==
    /\ pc = "fetch"
    /\ exit = "none"
    /\ floating < MaxFloating
    /\ Continue(repoLines, line + 1, attempts)
    /\ owed' = {o \in owed : o.repo # repo}
    /\ steady' = -1
    /\ UNCHANGED <<exit, dbData, dbFile, initPc, writeQ, floating, posts,
                   upstream, failed>>
    /\ UNCHANGED formatVars

\* fetchReleases catches a 404 (lines 70-75): the error notification is
\* posted without being awaited and undefined is returned, so that
\* releases.find throws at line 140 and the catch of line 208 logs it
NotFound ==
    /\ pc = "fetch"
    /\ exit = "none"
    /\ floating < MaxFloating
    /\ posts' = Append(posts, ErrorPost(repo))
    /\ floating' = floating + 1
    /\ Continue(repoLines, line + 1, attempts)
    /\ owed' = {o \in owed : o.repo # repo}
    /\ steady' = -1
    /\ UNCHANGED <<exit, dbData, dbFile, initPc, writeQ, upstream, failed>>
    /\ UNCHANGED formatVars

\* any other failure of the GET is rethrown (line 77; a failure without a
\* response throws at line 71) and the catch of line 208 logs it
FetchFailed ==
    /\ pc = "fetch"
    /\ exit = "none"
    /\ Continue(repoLines, line + 1, attempts)
    /\ owed' = {o \in owed : o.repo # repo}
    /\ steady' = -1
    /\ UNCHANGED <<exit, dbData, dbFile, initPc, writeQ, floating, posts,
                   upstream, failed>>
    /\ UNCHANGED formatVars

\* the oldest db.write() reaches the disk and its caller resumes: initDb
\* returns; updateVersion returns to processRepoLine, which posts the
\* notification (lines 175-189) after line 173 and returns otherwise
Written ==
    /\ writeQ # <<>>
    /\ exit = "none"
    /\ dbFile' = [exists |-> TRUE, releases |-> Head(writeQ).data]
    /\ writeQ' = Tail(writeQ)
    /\ IF Head(writeQ).by = "initDb"
       THEN /\ initPc' = "done"
            /\ UNCHANGED <<sweepVars, posts>>
       ELSE /\ UNCHANGED initPc
            /\ IF pc = "write173"
               THEN /\ pc' = "post189"
                    /\ posts' = Append(posts, ReleasePost(repo, currentVersion))
                    /\ UNCHANGED <<timer, repoLines, line, repo, beta,
                                   currentVersion, attempts>>
               ELSE /\ Continue(repoLines, line + 1, attempts)
                    /\ UNCHANGED posts
    /\ UNCHANGED <<exit, dbData, floating, upstream, failed, owed, steady>>
    /\ UNCHANGED formatVars

\* the gateway answers the POST of line 189; a failure rejects sendNtfy
\* and the catch of line 208 logs it
Posted(delivered) ==
    /\ pc = "post189"
    /\ exit = "none"
    /\ failed' = IF delivered THEN failed
                 ELSE failed \cup {[repo |-> repo, version |-> currentVersion]}
    /\ Continue(repoLines, line + 1, attempts)
    /\ steady' = IF delivered THEN steady ELSE -1
    /\ UNCHANGED <<exit, dbData, dbFile, initPc, writeQ, floating, posts,
                   upstream, owed>>
    /\ UNCHANGED formatVars

\* the gateway answers a POST of line 73: nothing handles its rejection,
\* which ends the process
FloatingPosted(delivered) ==
    /\ floating > 0
    /\ exit = "none"
    /\ floating' = floating - 1
    /\ IF delivered
       THEN UNCHANGED <<exit, timer>>
       ELSE exit' = "sendNtfy" /\ timer' = 0
    /\ steady' = IF delivered THEN steady ELSE -1
    /\ UNCHANGED <<pc, repoLines, line, repo, beta, currentVersion,
                   dbData, dbFile, initPc, writeQ, posts, upstream, attempts,
                   failed, owed>>
    /\ UNCHANGED formatVars

\* ------------------------------------------------------------------------
\* initDb
\* ------------------------------------------------------------------------

\* db.read() returns: the data of the file, when there is one, replaces
\* db.data, and db.write() is called (lines 36-38). A file that cannot be
\* read or parsed rejects initDb(), which nothing handles.
InitRead(readable) ==
    /\ initPc = "read"
    /\ exit = "none"
    /\ ~readable => dbFile.exists
    /\ IF readable
       THEN /\ dbData' = IF dbFile.exists THEN dbFile.releases ELSE dbData
            /\ writeQ' = Append(writeQ, [by |-> "initDb", data |-> dbData'])
            /\ initPc' = "write"
            /\ UNCHANGED <<exit, timer>>
       ELSE /\ exit' = "initDb"
            /\ timer' = 0
            /\ UNCHANGED <<dbData, writeQ, initPc>>
    /\ steady' = IF readable THEN steady ELSE -1
    /\ UNCHANGED <<pc, repoLines, line, repo, beta, currentVersion,
                   dbFile, floating, posts, upstream, attempts, failed, owed>>
    /\ UNCHANGED formatVars

\* ------------------------------------------------------------------------
\* The environment
\* ------------------------------------------------------------------------

\* a repository publishes, retracts or re-tags releases
Publish(r, releases) ==
    /\ exit = "none"
    /\ upstream[r] # releases
    /\ upstream' = [upstream EXCEPT ![r] = releases]
    /\ upstream' \in Upstreams
    /\ failed' = {}
    /\ owed' = {}
    /\ steady' = -1
    /\ UNCHANGED <<pc, timer, exit, repoLines, line, repo, beta, currentVersion,
                   dbData, dbFile, initPc, writeQ, floating, posts, attempts>>
    /\ UNCHANGED formatVars

Next ==
    \/ \E readable \in BOOLEAN, f \in RepoFiles : Main(readable, f)
    \/ \E readable \in BOOLEAN, f \in RepoFiles : TimerFires(readable, f)
    \/ Fetched
    \/ NotFound
    \/ FetchFailed
    \/ Written
    \/ \E delivered \in BOOLEAN : Posted(delivered)
    \/ \E delivered \in BOOLEAN : FloatingPosted(delivered)
    \/ \E readable \in BOOLEAN : InitRead(readable)
    \/ \E r \in Repos, releases \in ReleaseLists : Publish(r, releases)

Spec == Init /\ [][Next]_vars

\* the process starts on an empty store: DB_FILE is absent or holds no
\* version
FreshInit == Init /\ dbFile.releases = NoReleases

FreshSpec == FreshInit /\ [][Next]_vars

\* the GET of line 68 is answered or fails
Answered == FetchFailed \/ NotFound \/ Fetched

\* the POST of line 189 is answered or fails
Settled == \E delivered \in BOOLEAN : Posted(delivered)

\* a POST of line 73 is answered or fails
FloatingSettled == \E delivered \in BOOLEAN : FloatingPosted(delivered)

\* the timer of line 214 fires
Fired == \E readable \in BOOLEAN, f \in RepoFiles : TimerFires(readable, f)

\* db.read() returns or fails
InitReadSettled == \E readable \in BOOLEAN : InitRead(readable)

\* Every request is answered or fails, every file operation ends, the timer
\* fires, and the event loop runs the callback of each.
FairSpec ==
    /\ Spec
    /\ WF_vars(Answered)
    /\ WF_vars(Written)
    /\ WF_vars(Settled)
    /\ WF_vars(FloatingSettled)
    /\ WF_vars(Fired)
    /\ WF_vars(InitReadSettled)

\* ------------------------------------------------------------------------
\* The notification of a new release, on its own
\* ------------------------------------------------------------------------

\* processRepoLine has selected a release of acme/widget with the tag 1.10,
\* found it newer than the stored version and stored it (line 173)
FormatInit ==
    /\ pc = "write173"
    /\ timer = 0
    /\ exit = "none"
    /\ repoLines = <<Widget>>
    /\ line = 1
    /\ repo = "acme/widget"
    /\ beta = FALSE
    /\ currentVersion = sanitizeVersion(Tag110)
    /\ dbData = SetVersion(NoReleases, repo, currentVersion)
    /\ dbFile = [exists |-> TRUE, releases |-> dbData]
    /\ initPc = "done"
    /\ writeQ = <<>>
    /\ floating = 0
    /\ posts = <<>>
    /\ upstream \in {u \in Upstreams :
                        \A r \in Repos : u[r] = <<Release(Tag110, FALSE, FALSE)>>}
    /\ attempts = <<1>>
    /\ failed = {}
    /\ owed = {}
    /\ steady = 1
    /\ stage = "release"
    /\ release \in [name : ReleaseNames, html_url : ReleaseUrls,
                     body : ReleaseBodies]
    /\ headers = NoText
    /\ maxBodyBytes = 0
    /\ message = NoText
    /\ payload = NoText

\* latestRelease.body || "No release notes." (line 155)
releaseBody == IF release.body = NoText THEN <<Plain(17)>> ELSE release.body

\* lines 175-187: the headers, the bytes left for the body and the message
Compose ==
    /\ stage = "release"
    /\ headers' = Headers(release.name, repo, release.html_url, currentVersion)
    /\ maxBodyBytes' = MAX_MESSAGE_BYTES - byteLength(headers')
    /\ message' = headers' \o trunkateReleaseBody(emojify(releaseBody),
                                                   release.html_url, maxBodyBytes')
    /\ stage' = "message"
    /\ UNCHANGED <<release, payload>>
    /\ UNCHANGED loopVars

\* sendNtfy up to its await (line 82): githubMarkdown(message) is handed to
\* axios.post
sendNtfy ==
    /\ stage = "message"
    /\ payload' = githubMarkdown(message)
    /\ stage' = "sent"
    /\ UNCHANGED <<release, headers, maxBodyBytes, message>>
    /\ UNCHANGED loopVars

\* trunkateReleaseBody called with the body of the release, its URL and
\* maxBytes
Truncate(maxBytes) ==
    /\ stage = "release"
    /\ maxBodyBytes' = maxBytes
    /\ message' = trunkateReleaseBody(emojify(releaseBody), release.html_url,
                                       maxBytes)
    /\ stage' = "truncated"
    /\ UNCHANGED <<release, headers, payload>>
    /\ UNCHANGED loopVars

FormatNext ==
    \/ Compose
    \/ sendNtfy
    \/ \E maxBytes \in Budgets : Truncate(maxBytes)

FormatSpec == FormatInit /\ [][FormatNext]_vars

\* ------------------------------------------------------------------------
\* Vocabulary of the properties
\* ------------------------------------------------------------------------

\* the numbers of a version, read character by character
RECURSIVE Scan(_, _, _, _)
Scan(s, i, cur, acc) ==
    IF i > Len(s) THEN Append(acc, cur)
    ELSE IF s[i] = "." THEN Scan(s, i + 1, 0, Append(acc, cur))
    ELSE IF IsDigit(s[i]) THEN Scan(s, i + 1, 10 * cur + DigitVal(s[i]), acc)
    ELSE Scan(s, i + 1, cur, acc)

Numbers(v) == Scan(v, 1, 0, <<>>)

\* a version as one number: major, minor, patch and fourth number, each
\* below 100 in this model
Weight(v) ==
    LET n == Numbers(v)
        at(i) == IF i <= Len(n) THEN n[i] ELSE 0
    IN  at(1) * 1000000 + at(2) * 10000 + at(3) * 100 + at(4)

\* a "v" followed by one to four numbers separated by single dots
WellFormed(v) ==
    /\ Len(v) >= 2
    /\ v[1] = "v"
    /\ \A i \in 2..Len(v) : IsDigit(v[i]) \/ v[i] = "."
    /\ IsDigit(v[2]) /\ IsDigit(v[Len(v)])
    /\ \A i \in 2..(Len(v) - 1) : ~(v[i] = "." /\ v[i + 1] = ".")
    /\ Cardinality({i \in 1..Len(v) : v[i] = "."}) <= 3

\* the releases the entry in progress gets from the hosting API
Offered == upstream[repo]

NonDrafts(releases) == {i \in 1..Len(releases) : ~releases[i].draft}

Stable(releases) == {i \in NonDrafts(releases) : ~releases[i].prerelease}

Least(S) == CHOOSE i \in S : \A j \in S : i <= j

\* the release the selection policy picks, as an index (0 for none)
Pick(releases, withBeta) ==
    LET wanted == IF withBeta THEN NonDrafts(releases) ELSE Stable(releases)
    IN  IF wanted # {} THEN Least(wanted)
        ELSE IF NonDrafts(releases) # {} THEN Least(NonDrafts(releases))
        ELSE 0

Selected == latestRelease(Offered, beta) # 0

\* the normalized version of the selected release
Normalized == sanitizeVersion(Offered[latestRelease(Offered, beta)].tag_name)

HasEntry == repo \in DOMAIN dbData

Comparable ==
    /\ Selected
    /\ HasEntry
    /\ WellFormed(dbData[repo])
    /\ WellFormed(Normalized)

NewerCase == Comparable /\ Weight(Normalized) > Weight(dbData[repo])

OlderCase == Comparable /\ Weight(Normalized) < Weight(dbData[repo])

SameCase == Comparable /\ Weight(Normalized) = Weight(dbData[repo])

\* the step sends a new-release notification
ReleasePosted ==
    /\ Len(posts') = Len(posts) + 1
    /\ posts'[Len(posts')].tag = "loudspeaker"

\* the step sends no notification
NothingPosted == posts' = posts /\ floating' <= floating

\* the step ends the processing of the entry: the loop goes on to a later
\* entry or the sweep ends
EntryOver ==
    \/ pc' = "fetch" /\ line' > line
    \/ pc' = "sleeping" /\ line' = Len(repoLines) + 1

\* ------------------------------------------------------------------------
\* Properties
\* ------------------------------------------------------------------------

\* C1: processRepoLine sends a new-release notification exactly when the
\* store holds a version for the repo, that version and the normalized
\* selected version are both valid and the selected one is strictly greater;
\* it then sets the store entry of the repo to the new version. The branch
\* of line 170 is taken in exactly that case, and the notification is sent
\* exactly by the step that follows the branch's updateVersion.
C1_NotifyIffNewer ==
    /\ [][Fetched => /\ (pc' = "write173") <=> NewerCase
                     /\ NewerCase => /\ repo \in DOMAIN dbData'
                                     /\ dbData'[repo] = Normalized
                                     /\ currentVersion' = Normalized]_vars
    /\ [][(pc # "write173" /\ pc' = "write173") => pc = "fetch" /\ NewerCase]_vars
    /\ [][(pc = "write173" /\ pc' # "write173")
            => posts' = Append(posts, ReleasePost(repo, currentVersion))]_vars
    /\ [][ReleasePosted => pc = "write173" /\ pc' = "post189"]_vars

\* witness of C1: the notification for the version just stored is in flight
C1_Witness ==
    /\ pc = "post189"
    /\ posts # <<>>
    /\ posts[Len(posts)] = ReleasePost(repo, currentVersion)
    /\ repo \in DOMAIN dbData
    /\ dbData[repo] = currentVersion
    /\ currentVersion = sanitizeVersion(Tag1100rc)

C3_Downgrade ==
    /\ [][(Fetched /\ OlderCase)
            => /\ dbData' = SetVersion(dbData, repo, Normalized)
               /\ pc' = "write193"
               /\ NothingPosted]_vars
    /\ [][pc = "write193" => NothingPosted /\ (pc' = "write193" \/ EntryOver)]_vars

\* witness of C3: v1.10.0 has been replaced by v1.9.0
C3_Witness ==
    /\ pc = "write193"
    /\ repo \in DOMAIN dbData
    /\ dbData[repo] = sanitizeVersion(Tag190)
    /\ posts = <<>>

\* C4: when the normalized selected version compares equal to the stored
\* version, processRepoLine changes nothing in the store, writes nothing
\* and sends no notification.
C4_SameVersion ==
    [][(Fetched /\ SameCase)
         => /\ UNCHANGED <<dbData, dbFile, writeQ>>
            /\ NothingPosted
            /\ EntryOver]_vars

\* witness of C4: an entry has been processed with v1.10 offered and the
\* equal version v1.10.0 stored, which is still there
C4_Witness ==
    /\ pc = "fetch"
    /\ line > 1
    /\ parseLine(repoLines[line - 1]).repo = "acme/widget"
    /\ upstream["acme/widget"] = <<Release(Tag110, FALSE, FALSE)>>
    /\ "acme/widget" \in DOMAIN dbData
    /\ dbData["acme/widget"] = sanitizeVersion(Tag1100rc)
    /\ posts = <<>>
    /\ writeQ = <<>>

\* C5: the selected release is the first non-draft release that is not a
\* prerelease unless beta is set; without such a release it is the first
\* non-draft release; without any non-draft release nothing is selected,
\* and the processing of the entry ends without notification and without
\* change of the store. A draft is never selected.
C5_Selection ==
    /\ [](/\ \A releases \in ReleaseLists, withBeta \in BOOLEAN :
               latestRelease(releases, withBeta) = Pick(releases, withBeta)
          /\ pc = "fetch" /\ Selected
               => ~Offered[latestRelease(Offered, beta)].draft)
    /\ [][Fetched
            => IF Pick(Offered, beta) = 0
               THEN /\ UNCHANGED <<dbData, dbFile, writeQ>>
                    /\ NothingPosted
                    /\ EntryOver
               ELSE pc' \in {"write161", "write173", "write193"}
                      => /\ ~Offered[Pick(Offered, beta)].draft
                         /\ dbData'[repo] =
                              sanitizeVersion(Offered[Pick(Offered, beta)].tag_name)]_vars

\* witness of C5: with beta unset and a draft and a prerelease on offer,
\* the prerelease has been selected and its version stored
C5_Witness ==
    /\ pc = "write161"
    /\ ~beta
    /\ upstream[repo] = <<Release(Tag110, TRUE, FALSE), Release(Tag1100rc, FALSE, TRUE)>>
    /\ currentVersion = sanitizeVersion(Tag1100rc)
    /\ dbData[repo] = currentVersion

\* a sweep is under way
Sweeping == pc \in {"fetch", "write161", "write173", "write193", "post189"}

\* C6: an error raised while an entry is processed never keeps the later
\* entries of the list from being processed in the same sweep, and every
\* entry of the list is attempted exactly once per sweep: the entries are
\* attempted in order, a sweep that has ended has attempted them all, and
\* a notification that failed has not stopped a sweep before its end.
C6_FailureIsolation ==
    /\ attempts = Range(1, Len(attempts))
    /\ pc = "sleeping" => attempts = Range(1, Len(repoLines))
    /\ exit = "sendNtfy" => ~Sweeping

\* C7: every sweep, whatever failed in it, ends by scheduling exactly one
\* next sweep, so that a sweep is always followed by another.
C7_AlwaysRescheduled ==
    /\ [](timer \in {0, 1})
    /\ [](Sweeping => <>(pc = "sleeping" /\ timer = 1))

\* C8: when the fetch of the releases returns 404, an error notification
\* about the repository is sent, the processing of the entry ends without
\* change of the store and without new-release notification, and the sweep
\* goes on with the next entry.
C8_NotFound ==
    /\ [][NotFound
            => /\ posts' = Append(posts, ErrorPost(repo))
               /\ UNCHANGED <<dbData, dbFile, writeQ, exit>>
               /\ EntryOver
               /\ line < Len(repoLines)
                    => /\ Len(attempts') > Len(attempts)
                       /\ attempts'[Len(attempts) + 1] = line + 1]_vars
    /\ [][(Len(posts') = Len(posts) + 1 /\ posts'[Len(posts')].tag = "exclamation")
            => /\ pc = "fetch"
               /\ posts'[Len(posts')].repo = repo
               /\ UNCHANGED <<dbData, dbFile, writeQ>>]_vars

\* witness of C8: the error notification about acme/widget has been sent
\* and the next entry is being fetched
C8_Witness ==
    /\ pc = "fetch"
    /\ exit = "none"
    /\ line > 1
    /\ posts = <<ErrorPost("acme/widget")>>
    /\ floating = 1
    /\ attempts = Range(1, line)
    /\ dbData = NoReleases

\* C9: a new-release notification is attempted at most once within a sweep,
\* and one whose delivery failed is attempted again by the next sweep when
\* the releases upstream have not changed (here also: when the list of
\* repositories is the same and the releases of the repository could be
\* fetched).
C9_RetryNextSweep ==
    /\ \A i, j \in 1..Len(posts) :
          (posts[i].tag = "loudspeaker" /\ posts[i] = posts[j]) => i = j
    /\ pc = "sleeping" =>
          \A o \in owed :
             \E i \in 1..Len(posts) : posts[i] = ReleasePost(o.repo, o.version)

\* C10: no failure ends the process.
C10_NeverFatal == exit = "none"

\* ------------------------------------------------------------------------
\* Properties of the composition of a notification
\* ------------------------------------------------------------------------

\* the body as trunkateReleaseBody gets it (line 187)
GivenBody == emojify(releaseBody)

\* what trunkateReleaseBody returned: the message without its headers
Rendered == SubSeq(message, Len(headers) + 1, Len(message))

\* "Full release notes: [url](url)", 24 bytes and the URL twice
IsFallback(text, url) ==
    /\ text # GivenBody
    /\ byteLength(text) = 24 + 2 * byteLength(url)
    /\ SubSeq(text, 2, 1 + Len(url)) = url

\* C11: whenever the byte length of the body exceeds maxBytes (the one
\* computed as 4000 minus the byte length of the headers included),
\* trunkateReleaseBody returns the fallback text that refers to the URL of
\* the release, and the byte length of that fallback text is at most
\* maxBytes.
C11_Truncation ==
    (stage \in {"message", "truncated"} /\ byteLength(GivenBody) > maxBodyBytes)
        => /\ IsFallback(Rendered, release.html_url)
           /\ byteLength(Rendered) <= maxBodyBytes

\* ------------------------------------------------------------------------
\* Properties of a run without failure or change
\* ------------------------------------------------------------------------

\* the repository ids of the list
ListedRepos == {parseLine(repoLines[i]).repo : i \in 1..Len(repoLines)}

\* the entry in progress names a repository that an earlier line of the
\* list has named
DuplicateLine ==
    /\ line > 1
    /\ \E i \in 1..(line - 1) : parseLine(repoLines[i]).repo = repo

\* the repository r offers one release, neither draft nor prerelease
SingleRelease(r) ==
    /\ Len(upstream[r]) = 1
    /\ ~upstream[r][1].draft
    /\ ~upstream[r][1].prerelease

\* the list names acme/widget on two lines and nothing else
WidgetTwice ==
    /\ Len(repoLines) = 2
    /\ ListedRepos = {"acme/widget"}

\* C12: with a store that is empty at the start, a list whose lines name
\* the same repository id twice (once with beta) and one release upstream
\* that is neither draft nor prerelease, the first sweep ends with exactly
\* one entry, under that id, holding the normalized version of the release;
\* the later line changes nothing in the store and no notification is sent.
C12_DuplicateLines ==
    /\ []((pc = "sleeping" /\ steady = 1 /\ WidgetTwice
            /\ SingleRelease("acme/widget"))
           => /\ DOMAIN dbData = {"acme/widget"}
              /\ dbData["acme/widget"] =
                    sanitizeVersion(upstream["acme/widget"][1].tag_name)
              /\ posts = <<>>)
    /\ [][(Fetched /\ steady = 1 /\ WidgetTwice /\ DuplicateLine
            /\ SingleRelease("acme/widget"))
           => dbData' = dbData /\ NothingPosted]_vars

\* ------------------------------------------------------------------------
\* Properties of the store, the order of the work and the requests
\* ------------------------------------------------------------------------

\* db.read() of initDb has returned
StoreRead == initPc \in {"write", "done"}

\* every version of the mapping a is in the mapping b
KeepsAll(a, b) == \A r \in DOMAIN a : r \in DOMAIN b /\ b[r] = a[r]

\* C13: the store is read from DB_FILE before the first sweep looks up or
\* writes a version: no entry is compared (or found absent) while the read
\* is under way, the read discards no version that the sweep has stored, and
\* the sweep does not write the file before the read has returned.
C13_LoadedBeforeUse ==
    /\ [][(Fetched /\ Selected) => StoreRead]_vars
    /\ [][(initPc = "read" /\ initPc' = "write") => KeepsAll(dbData, dbData')]_vars
    /\ [][dbFile' # dbFile => StoreRead]_vars

\* the awaited operation of the entry in progress ends with this step: the
\* answer to its GET, its own db.write() reaching the file, or the answer
\* to its POST
OwnAwaitEnds ==
    \/ pc = "fetch"
    \/ /\ pc \in {"write161", "write193"}
       /\ writeQ # <<>>
       /\ Head(writeQ).by = "updateVersion"
    \/ pc = "post189"

\* C14: at any time at most one sweep runs and within it at most one entry
\* is processed: the entries are taken in the order of the list, each once;
\* the entry in progress is the last one taken; the loop moves to another
\* entry only with the step that ends what the entry in progress awaits;
\* and the timer of the next sweep is armed, once, only when every entry of
\* the list has been taken and none is in progress.
C14_NoOverlap ==
    /\ [](/\ timer \in {0, 1}
          /\ attempts = Range(1, Len(attempts))
          /\ Len(attempts) <= Len(repoLines)
          /\ Sweeping => /\ line \in 1..Len(repoLines)
                          /\ attempts # <<>>
                          /\ attempts[Len(attempts)] = line
                          /\ timer = 0
          /\ timer = 1 => /\ pc = "sleeping"
                           /\ attempts = Range(1, Len(repoLines)))
    /\ [][(Sweeping /\ (line' # line \/ ~Sweeping')) => OwnAwaitEnds]_vars
    /\ [][(pc = "write173" /\ pc' # "write173") => pc' = "post189" /\ line' = line]_vars

\* witness of C14: the second entry of a list is in progress after the
\* first one has stored a version, and no timer is armed
C14_Witness ==
    /\ pc = "fetch"
    /\ line = 2
    /\ attempts = <<1, 2>>
    /\ timer = 0
    /\ writeQ = <<>>
    /\ parseLine(repoLines[1]).repo \in DOMAIN dbFile.releases

\* C15: every request is awaited: when the processing of an entry ends, so
\* that the next entry starts or the next sweep is scheduled, no request
\* that it started is still in flight, the error notification about a
\* repository that was not found included.
C15_AllAwaited == [][EntryOver => floating' = 0]_vars

\* the stored version or the normalized selected version fails validation
InvalidCase ==
    /\ Selected
    /\ \/ HasEntry /\ ~WellFormed(dbData[repo])
       \/ ~WellFormed(Normalized)

\* C16: when the stored version or the normalized selected version fails
\* validation (a tag that normalizes to the empty string included), the
\* comparison is skipped: the store is left as it is, nothing is written
\* and no notification is sent.
C16_ValidationGuard ==
    [][(Fetched /\ InvalidCase)
         => /\ UNCHANGED <<dbData, dbFile, writeQ>>
            /\ NothingPosted
            /\ EntryOver]_vars

\* C17: every update of the store made for an entry is in DB_FILE before
\* the next entry starts, and it stays there: the file changes only by the
\* db.write() of an update, or without losing a version, so that the store
\* reloaded after a crash holds every update of the entries that were
\* completed.
C17_DurableFlush ==
    /\ [][(pc \in {"write161", "write173", "write193"} /\ pc' # pc)
            => /\ repo \in DOMAIN dbFile'.releases
               /\ dbFile'.releases[repo] = currentVersion]_vars
    /\ [][dbFile' # dbFile
            => \/ Head(writeQ).by = "updateVersion"
               \/ KeepsAll(dbFile.releases, dbFile'.releases)]_vars

\* C18: the body handed to the gateway for a new-release notification,
\* after every replacement, has at most MAX_MESSAGE_BYTES bytes.
C18_PayloadBudget ==
    stage = "sent" => byteLength(payload) <= MAX_MESSAGE_BYTES

\* C19: starting from an empty store, every version in the store is a
\* non-empty version that passes validation, and a repository is taken as
\* first seen only while the store has no entry for it.
C19_StoredVersionsValid ==
    /\ [](\A r \in DOMAIN dbData : WellFormed(dbData[r]))
    /\ [][(Fetched /\ pc' = "write161") => ~HasEntry]_vars

\* C20: while the releases upstream and the list do not change and nothing
\* fails, no sweep after the second sends a new-release notification or
\* changes the store.
C20_SteadyState ==
    [][steady' >= 3 => /\ ~ReleasePosted
                       /\ dbData' = dbData]_vars

====
